---- MODULE Spec2Model ----
(***************************************************************************)
(* wisent: a harness that drives HTTP tests and benchmarks against a       *)
(* service.  The model follows the current sources, src/unnamed/part_002   *)
(* (Wisent.Test, Wisent.Benchmark, Wisent.BenchmarkParallel) and           *)
(* src/utils.go (HealthCheckReadinessProbe, SimpleRetry).                  *)
(*                                                                         *)
(* One call of an entry point is one behaviour.  The goroutine that made   *)
(* the call is "the caller"; th[k] is the goroutine that executes a case   *)
(* or an iteration: the subtest goroutine of t.Run in Test, the caller     *)
(* itself in Benchmark, worker k of b.RunParallel in BenchmarkParallel.    *)
(*                                                                         *)
(* Go semantics the model relies on:                                       *)
(*   - a deferred function runs when its goroutine returns, panics or      *)
(*     calls runtime.Goexit (t.Fatalf, b.Fatalf);                          *)
(*   - a panic in a goroutine other than the caller ends the process and   *)
(*     runs no deferred function of the caller;                            *)
(*   - t.Run runs the case in a goroutine of its own and waits for it;     *)
(*     when the case called FailNow on the parent t, t.Run ends the        *)
(*     caller with runtime.Goexit;                                         *)
(*   - http.Client.Do returns a nil response with every transport error;   *)
(*   - a method call through a nil *http.Response panics.                  *)
(* A response is its status code, 0 standing for the nil response; an      *)
(* error is the number of the send that produced it, 0 standing for nil.   *)
(***************************************************************************)
EXTENDS Integers, Sequences, FiniteSets, TLC

\* ------------------------------------------------------------------ bounds
MaxCases == 2        \* test cases of a Test call, b.N of a benchmark call
MaxWorkers == 2      \* goroutines started by b.RunParallel
MaxTimeout == 3      \* probe timeout, in clock ticks
MaxSleep == 2        \* probe polling interval, in clock ticks
MaxAttemptDur == 2   \* longest duration of one probe attempt, in clock ticks
MaxAttemptsArg == 6  \* largest maxAttempts handed to SimpleRetry
MaxBaseSleep == 2    \* largest baseSleep handed to SimpleRetry
MaxFlaky == 1        \* inside an entry point: failed sends of one case after
                     \* which a send of that case may still succeed
MaxOpts == 3         \* options handed to New
MaxOptVal == 2       \* distinct non-nil values an option may carry
MaxBody == 2         \* longest response body handed to an assertion helper,
                     \* longest request body handed to copyRequest
MaxHeaderVal == 2    \* distinct values a header of a request may carry

\* The probe and the wrapper an entry point is run with (the values of the
\* README's example, in ticks).
HarnessTimeout == 1
HarnessSleep == 1
HarnessMaxAttempts == 3
HarnessBaseSleep == 1

VARIABLES
    w,          \* the Wisent value, as New builds it
    cfg,        \* the configuration and the arguments of the call (read-only)
    pc,         \* where the caller is
    exit,       \* how the caller leaves the entry point
    retval,     \* the error the entry point returned
    failed,     \* t.Failed() / b.Failed() of the test context
    ctx,        \* the execution context: cancelled, number of cancel() calls
    life,       \* calls of Start and of the shutdown function
    probe,      \* the call of HealthCheckReadinessProbe: its locals, its result
    th,         \* the goroutines that execute cases and iterations
    nextIter,   \* cases started (Test), i (Benchmark), pb's counter (parallel),
                \* options applied (New), copies made (copying Benchmark)
    its,        \* what happened to each case / iteration
    assertLog   \* Test, Benchmark: the cases / iterations in the order their
                \* assertion ran (BenchmarkParallel orders nothing)

vars == <<w, cfg, pc, exit, retval, failed, ctx, life, probe, th, nextIter, its,
          assertLog>>

Threads == 1..MaxWorkers
Iters == 1..MaxCases

\* What a send may come back with: 0 is a transport error (nil response),
\* anything else the status code of a response.  A call of the probe or of
\* the wrapper alone is run against every kind of answer; inside an entry
\* point the answers that the entry point tells apart are enough.
SendOuts == IF cfg.entry = "Retry" THEN {0, 200, 400, 503} ELSE {0, 200}
\* The answers the send after `fails` failed sends of the same case may get.
SendOutsAfter(fails) ==
    IF cfg.entry = "Retry" \/ fails <= MaxFlaky THEN SendOuts ELSE {0}
ProbeOuts ==
    IF cfg.entry = "Probe" THEN {0, 200, 204, 301, 404, 503} ELSE {0, 200}
ProbeDurs == IF cfg.entry = "Probe" THEN 0..MaxAttemptDur ELSE {0}

\* net/http.StatusOK, as HealthCheckReadinessProbe compares with it.
StatusOK == 200

\* ------------------------------------------------------------- initial state
\* The record kept of a case / iteration: how often it was started and how
\* often each of its steps ran, whether its request came back with a response
\* or with an error, what the assertion was handed and did, how the case
\* ended, (users) the cases / iterations that sent the request made for this
\* one, and (via) what executed its request: the wrapper or a direct send.
ItInit ==
    [runs |-> 0, factory |-> 0, pre |-> 0, post |-> 0, asserts |-> 0,
     gotResp |-> FALSE, gotErr |-> FALSE, argResp |-> 0, argErr |-> 0,
     outcome |-> "none", closed |-> 0, endKind |-> "none", users |-> {},
     via |-> "none"]

\* A goroutine and the locals of the case / iteration it is running: the loop
\* request req it works on, the loop variable i of SimpleRetry, resp and err,
\* and what its sends and sleeps were; body is the state of req.Body ("none"
\* for a request without one) and stale the number of sends that were handed
\* a body an earlier send had already used.
ThInit == [pc |-> "idle", it |-> 0, req |-> 0, i |-> 0, sends |-> 0,
           outs |-> <<>>, sleeps |-> <<>>, resp |-> 0, err |-> 0,
           body |-> "none", stale |-> 0]

\* The probe: where it is, time.Since(startTime) in ticks, the attempts made,
\* the answer and the duration of the last one, the sleeps taken, the result.
ProbeInit == [state |-> "idle", elapsed |-> 0, attempts |-> 0, last |-> 0,
              lastDur |-> 0, saw200 |-> FALSE, sleeps |-> 0, result |-> "none"]

Entries == {"Test", "Benchmark", "BenchmarkParallel"}

\* The values of the fields of a Wisent: 0 is nil, 1..MaxOptVal are values a
\* caller supplied, and the two values New installs by itself.
DefaultHttpClient == MaxOptVal + 1
DiscardLogger == MaxOptVal + 2

\* The fields the options set: WithStartFunc, WithReadinessProbe,
\* WithHttpClient, WithRequestWrapper, WithLogger.
OptFields ==
    {"Start", "ReadinessProbe", "HttpClient", "RequestWrapper", "Logger"}

\* w := &Wisent{BaseURL: baseUrl}
ZeroWisent(baseUrl) ==
    [BaseURL |-> baseUrl, Start |-> 0, ReadinessProbe |-> 0, HttpClient |-> 0,
     RequestWrapper |-> 0, Logger |-> 0]

\* The Wisent an entry point is called on, for the configuration c.
WisentOf(c) ==
    [BaseURL |-> 1,
     Start |-> IF c.hasStart THEN 1 ELSE 0,
     ReadinessProbe |-> IF c.hasProbe THEN 1 ELSE 0,
     HttpClient |-> DefaultHttpClient,
     RequestWrapper |-> IF c.hasWrapper THEN 1 ELSE 0,
     Logger |-> DiscardLogger]

\* New(baseUrl, options...) followed by the arguments of the call.
\* shutdownWaits tells the two shutdown functions of the examples apart: the one
\* of examples/std/app.go starts with <-ctx.Done() on its argument, the earlier
\* one goes straight to server.Shutdown.
HarnessCfgs ==
    {c \in [entry : Entries, hasStart : BOOLEAN, hasProbe : BOOLEAN,
            hasWrapper : BOOLEAN, hasPre : BOOLEAN, hasPost : BOOLEAN,
            shutdownWaits : BOOLEAN,
            n : 0..MaxCases, workers : 1..MaxWorkers,
            timeout : {HarnessTimeout}, sleep : {HarnessSleep},
            maxAttempts : {HarnessMaxAttempts}, baseSleep : {HarnessBaseSleep}] :
        /\ c.entry # "BenchmarkParallel" => c.workers = 1
        /\ c.hasPre = c.hasPost
        /\ c.shutdownWaits => c.hasStart}

InitCommon ==
    /\ exit = "none"
    /\ retval = "none"
    /\ failed = FALSE
    /\ ctx = [cancelled |-> FALSE, cancelCalls |-> 0]
    /\ life = [startCalls |-> 0, shutdownCalls |-> 0, shutdownArg |-> "none"]
    /\ nextIter = 0
    /\ its = [i \in Iters |-> ItInit]
    /\ assertLog = <<>>

Init ==
    /\ cfg \in HarnessCfgs
    /\ w = WisentOf(cfg)
    /\ pc = "idle"
    /\ probe = ProbeInit
    /\ th = [k \in Threads |-> ThInit]
    /\ InitCommon

\* ------------------------------------------------------------------ helpers
\* The caller runs its deferred functions and leaves as `how`.
Unwind(how) ==
    /\ exit' = how
    /\ pc' = "defer"

\* return nil: the result is set, then the deferred functions run.
ReturnNil ==
    /\ retval' = "nil"
    /\ Unwind("return")

\* A panic in goroutine k.  In Benchmark the iteration runs on the caller, whose
\* deferred functions run while the panic unwinds; in Test (t.Run's goroutine)
\* and BenchmarkParallel (RunParallel's workers) the process ends at once.
PanicIn(k) ==
    IF cfg.entry = "Benchmark"
    THEN /\ Unwind("panic")
         /\ th' = [th EXCEPT ![k] = ThInit]
    ELSE /\ pc' = "crashed"
         /\ exit' = "crash"
         /\ th' = [th EXCEPT ![k] = [ThInit EXCEPT !.pc = "dead"]]

\* The case or iteration of goroutine k is over and the loop goes on.
IterDone(k) ==
    IF cfg.entry = "BenchmarkParallel"
    THEN /\ th' = [th EXCEPT ![k] = [ThInit EXCEPT !.pc = "next"]]
         /\ UNCHANGED <<pc, exit>>
    ELSE /\ th' = [th EXCEPT ![k] = ThInit]
         /\ pc' = "loop"
         /\ UNCHANGED exit

\* b.Fatalf in the assertion of goroutine k: on the caller of Benchmark it ends
\* the caller with Goexit, in a worker of RunParallel it ends that worker.
FatalIn(k) ==
    IF cfg.entry = "Benchmark"
    THEN /\ Unwind("goexit")
         /\ th' = [th EXCEPT ![k] = ThInit]
    ELSE /\ th' = [th EXCEPT ![k] = [ThInit EXCEPT !.pc = "dead"]]
         /\ UNCHANGED <<pc, exit>>

\* IterRequest for a runner that builds one request before its loop and sends
\* it in every iteration.
IterRequestBuiltOnce(it) == 1

\* The request case / iteration `it` works on, requests numbered in the order
\* they were made: tt.Request of the it-th case in Test, the local
\* req := bm.RequestF() of the iteration in the benchmarks, where RequestF is
\* called anew in every pass of the loop.
IterRequest(it) == it

\* Whether the requests of the call carry a body: a call of the wrapper alone
\* is run with both kinds of request, the cases and iterations of an entry
\* point with requests that have one.
HasBody == IF cfg.entry = "Retry" THEN cfg.hasBody ELSE TRUE

\* The body of a request nothing has sent yet.
NewBody == IF HasBody THEN "fresh" ELSE "none"

\* What w.HttpClient.Do(req) does to req.Body: the transport reads the stream
\* and closes it, also when the send ends in an error; the same req value is
\* left in the hands of the caller.
BodyAfterDo(body) == IF body = "none" THEN "none" ELSE "used"

\* 1 when a send is handed a body that an earlier send has used.
StaleSend(body) == IF body = "used" THEN 1 ELSE 0

\* Goroutine k starts case / iteration `it`; fac = 1 when bm.RequestF() built
\* its request.
StartIter(k, it, fac) ==
    /\ th' = [th EXCEPT ![k] = [ThInit EXCEPT
                                   !.pc = IF cfg.hasPre THEN "pre" ELSE "send",
                                   !.it = it,
                                   !.req = IterRequest(it),
                                   !.body = NewBody]]
    /\ its' = [its EXCEPT ![it].runs = @ + 1, ![it].factory = @ + fac]

\* ------------------------------------------------- lifecycle: start and defer
\* AfterSetup for an entry point that never calls its probe.
AfterSetupNoProbe == "loop"

\* Where the caller goes once the deferred function is registered:
\* if w.ReadinessProbe != nil { w.ReadinessProbe(ctx, w) }, then the loop.
AfterSetup == IF cfg.hasProbe THEN "probe" ELSE "loop"

\* ProbeEntry for a probe whose loop looks at the context and the clock
\* before it sends: for time.Since(startTime) < timeout { ... }.
ProbeEntryCheckFirst == "check"

\* Where HealthCheckReadinessProbe starts: startTime := time.Now(), then the
\* body of for { ... }, which opens with building and sending the request.
ProbeEntry == "attempt"

\* The caller goes on to AfterSetup.
EnterAfterSetup ==
    /\ pc' = AfterSetup
    /\ probe' = IF AfterSetup = "probe" THEN [probe EXCEPT !.state = ProbeEntry]
                ELSE probe

\* ctx, cancel := context.WithCancel(...); with a start function w.Start(ctx)
\* is called, without one the caller registers defer cancel() and goes on.
Setup ==
    /\ pc = "idle"
    /\ IF cfg.hasStart
       THEN /\ life' = [life EXCEPT !.startCalls = @ + 1]
            /\ pc' = "starting"
            /\ UNCHANGED probe
       ELSE /\ EnterAfterSetup
            /\ UNCHANGED life
    /\ UNCHANGED <<w, cfg, exit, retval, failed, ctx, th, nextIter, its, assertLog>>

\* w.Start(ctx) has returned the shutdown function; the caller registers the
\* deferred closure and goes on.
Started ==
    /\ pc = "starting"
    /\ EnterAfterSetup
    /\ UNCHANGED <<w, cfg, exit, retval, failed, ctx, life, th, nextIter, its,
                   assertLog>>

\* DeferCancel for an entry point that may call cancel() while its probe runs.
DeferCancelEarly ==
    /\ pc \in {"probe", "defer"}
    /\ pc = "probe" => ~ctx.cancelled
    /\ ctx' = [cancelled |-> TRUE, cancelCalls |-> ctx.cancelCalls + 1]
    /\ pc' = IF pc = "probe" THEN pc
             ELSE IF cfg.hasStart THEN "shutdown" ELSE "end"
    /\ UNCHANGED <<w, cfg, exit, retval, failed, life, probe, th, nextIter, its,
                   assertLog>>

\* The deferred function: cancel() first.
DeferCancel ==
    /\ pc = "defer"
    /\ ctx' = [cancelled |-> TRUE, cancelCalls |-> ctx.cancelCalls + 1]
    /\ pc' = IF cfg.hasStart THEN "shutdown" ELSE "end"
    /\ UNCHANGED <<w, cfg, exit, retval, failed, life, probe, th, nextIter, its,
                   assertLog>>

\* The context the shutdown function is called with: Test and BenchmarkParallel
\* pass context.Background(), Benchmark passes the ctx it has just cancelled.
ShutdownArg ==
    IF cfg.entry = "Benchmark" THEN "ctx" ELSE "background"

\* The deferred function: shutdown(...) is called after cancel().
Shutdown ==
    /\ pc = "shutdown"
    /\ life' = [life EXCEPT !.shutdownCalls = @ + 1, !.shutdownArg = ShutdownArg]
    /\ pc' = "inShutdown"
    /\ UNCHANGED <<w, cfg, exit, retval, failed, ctx, probe, th, nextIter, its,
                   assertLog>>

\* The context the shutdown function was handed is cancelled:
\* context.Background() never is.
ShutdownArgCancelled == life.shutdownArg = "ctx" /\ ctx.cancelled

\* The shutdown function returns: at once when it does not wait for its
\* argument, past its <-ctx.Done() only when the argument is cancelled.
ShutdownReturns ==
    /\ pc = "inShutdown"
    /\ cfg.shutdownWaits => ShutdownArgCancelled
    /\ pc' = "end"
    /\ UNCHANGED <<w, cfg, exit, retval, failed, ctx, life, probe, th, nextIter,
                   its, assertLog>>

\* ------------------------------------------------ HealthCheckReadinessProbe
\* if time.Since(startTime) >= timeout
ProbeTimedOut(elapsed, timeout) == elapsed >= timeout

\* ProbeDecision as the first version of the probe had it: after a send error
\* the loop went on without looking at the context or at the clock.
ProbeDecisionNoCheckOnError(cancelled, elapsed, timeout, last) ==
    IF last = 0 THEN "sleep"
    ELSE IF cancelled THEN "cancelled"
    ELSE IF ProbeTimedOut(elapsed, timeout) THEN "timeout"
    ELSE "sleep"

\* ProbeDecision for a probe that looks at the clock before the context.
ProbeDecisionTimeoutFirst(cancelled, elapsed, timeout, last) ==
    IF ProbeTimedOut(elapsed, timeout) THEN "timeout"
    ELSE IF cancelled THEN "cancelled"
    ELSE "sleep"

\* What the probe does after an attempt that was no 200 (last = 0: a send
\* error): select on ctx.Done() first, then the timeout, else sleep and retry.
\* Both branches of the source (after an error, after another status) agree.
ProbeDecision(cancelled, elapsed, timeout, last) ==
    IF cancelled THEN "cancelled"
    ELSE IF ProbeTimedOut(elapsed, timeout) THEN "timeout"
    ELSE "sleep"

\* The probe returns `result` from the state p of its locals.  Test, Benchmark
\* and BenchmarkParallel drop the returned error and go on to the loop; the
\* locals of the call are gone then.
ProbeReturn(p, result) ==
    IF cfg.entry = "Probe"
    THEN /\ probe' = [p EXCEPT !.state = "done", !.result = result]
         /\ pc' = "end"
         /\ exit' = "return"
         /\ retval' = result
    ELSE /\ probe' = [ProbeInit EXCEPT !.state = "done", !.result = result]
         /\ pc' = "loop"
         /\ UNCHANGED <<exit, retval>>

\* ProbeReady for a probe that takes every 2xx answer for readiness.
ProbeReadyAny2xx(out) == out >= 200 /\ out < 300

\* if resp.StatusCode == http.StatusOK { return nil }
ProbeReady(out) == out = StatusOK

\* One pass of the loop up to the status check: a fresh GET, w.HttpClient.Do,
\* resp.Body.Close(), return nil on 200.  The attempt takes d ticks; a request
\* whose context is cancelled fails.
ProbeAttempt ==
    /\ pc = "probe"
    /\ probe.state = "attempt"
    /\ \E d \in ProbeDurs, out \in ProbeOuts :
        /\ ctx.cancelled => out = 0
        /\ LET p == [probe EXCEPT !.elapsed = @ + d, !.attempts = @ + 1,
                                  !.last = out, !.lastDur = d,
                                  !.saw200 = (@ \/ out = StatusOK)]
           IN IF ProbeReady(out)
              THEN ProbeReturn(p, "ok")
              ELSE /\ probe' = [p EXCEPT !.state = "check"]
                   /\ UNCHANGED <<pc, exit, retval>>
    /\ UNCHANGED <<w, cfg, failed, ctx, life, th, nextIter, its, assertLog>>

\* The select after an attempt that was no 200.
ProbeCheck ==
    /\ pc = "probe"
    /\ probe.state = "check"
    /\ LET d == ProbeDecision(ctx.cancelled, probe.elapsed, cfg.timeout, probe.last)
       IN IF d = "sleep"
          THEN /\ probe' = [probe EXCEPT !.state = "attempt", !.sleeps = @ + 1,
                                         !.elapsed = @ + cfg.sleep]
               /\ UNCHANGED <<pc, exit, retval>>
          ELSE ProbeReturn(probe, d)
    /\ UNCHANGED <<w, cfg, failed, ctx, life, th, nextIter, its, assertLog>>

\* Whoever holds the cancel function of the context handed to the probe calls
\* it (a probe called outside Test, Benchmark and BenchmarkParallel).
CancelCtx ==
    /\ pc = "probe"
    /\ cfg.entry = "Probe"
    /\ ~ctx.cancelled
    /\ ctx' = [cancelled |-> TRUE, cancelCalls |-> ctx.cancelCalls + 1]
    /\ UNCHANGED <<w, cfg, pc, exit, retval, failed, life, probe, th, nextIter,
                   its, assertLog>>

\* --------------------------------------------------------------- the loops
\* TestLoop for a Test that starts every case in a goroutine of its own and
\* does not wait for it before it starts the next one.
TestLoopGo ==
    /\ cfg.entry = "Test"
    /\ IF nextIter < cfg.n
       THEN /\ pc \in {"loop", "wait"}
            /\ th[(nextIter % MaxWorkers) + 1].pc = "idle"
            /\ nextIter' = nextIter + 1
            /\ StartIter((nextIter % MaxWorkers) + 1, nextIter + 1, 0)
            /\ pc' = "wait"
            /\ UNCHANGED <<exit, retval>>
       ELSE /\ pc = "loop"
            /\ ReturnNil
            /\ UNCHANGED <<nextIter, th, its>>
    /\ UNCHANGED <<w, cfg, failed, ctx, life, probe, assertLog>>

\* Test: for _, tt := range tests { t.Run(tt.Name, ...) }, then return nil.
TestLoop ==
    /\ pc = "loop"
    /\ cfg.entry = "Test"
    /\ IF nextIter < cfg.n
       THEN /\ nextIter' = nextIter + 1
            /\ StartIter(1, nextIter + 1, 0)
            /\ pc' = "wait"
            /\ UNCHANGED <<exit, retval>>
       ELSE /\ ReturnNil
            /\ UNCHANGED <<nextIter, th, its>>
    /\ UNCHANGED <<w, cfg, failed, ctx, life, probe, assertLog>>

\* Benchmark: for i := 0; i < b.N; i++ { req := bm.RequestF() ... }, then
\* return nil.
BenchmarkLoop ==
    /\ pc = "loop"
    /\ cfg.entry = "Benchmark"
    /\ IF nextIter < cfg.n
       THEN /\ nextIter' = nextIter + 1
            /\ StartIter(1, nextIter + 1, 1)
            /\ pc' = "wait"
            /\ UNCHANGED <<exit, retval>>
       ELSE /\ ReturnNil
            /\ UNCHANGED <<nextIter, th, its>>
    /\ UNCHANGED <<w, cfg, failed, ctx, life, probe, assertLog>>

\* BenchmarkParallel: b.RunParallel starts the workers and waits for them.
RunParallel ==
    /\ pc = "loop"
    /\ cfg.entry = "BenchmarkParallel"
    /\ th' = [k \in Threads |->
                IF k <= cfg.workers THEN [th[k] EXCEPT !.pc = "next"] ELSE th[k]]
    /\ pc' = "wait"
    /\ UNCHANGED <<w, cfg, exit, retval, failed, ctx, life, probe, nextIter, its,
                   assertLog>>

\* for pb.Next() { req := bm.RequestF() ... }: worker k takes the next
\* iteration off the shared counter, or leaves the loop when b.N are taken.
\* (testing.PB hands iterations out in grains; the grain is 1 for an operation
\* that takes longer than 100 microseconds, as an HTTP round trip does.)
PBNext(k) ==
    /\ pc = "wait"
    /\ cfg.entry = "BenchmarkParallel"
    /\ th[k].pc = "next"
    /\ IF nextIter < cfg.n
       THEN /\ nextIter' = nextIter + 1
            /\ StartIter(k, nextIter + 1, 1)
       ELSE /\ th' = [th EXCEPT ![k] = [ThInit EXCEPT !.pc = "done"]]
            /\ UNCHANGED <<nextIter, its>>
    /\ UNCHANGED <<w, cfg, pc, exit, retval, failed, ctx, life, probe, assertLog>>

\* RunParallel returns when every worker has ended; then return nil.
ParallelJoin ==
    /\ pc = "wait"
    /\ cfg.entry = "BenchmarkParallel"
    /\ \A k \in Threads : th[k].pc \in {"idle", "done", "dead"}
    /\ ReturnNil
    /\ UNCHANGED <<w, cfg, failed, ctx, life, probe, th, nextIter, its, assertLog>>

\* ------------------------------------------------ one case / one iteration
\* if PreRequest != nil { PreRequest(req) }
PreRequest(k) ==
    /\ pc = "wait"
    /\ th[k].pc = "pre"
    /\ its' = [its EXCEPT ![th[k].it].pre = @ + 1]
    /\ th' = [th EXCEPT ![k].pc = "send"]
    /\ UNCHANGED <<w, cfg, pc, exit, retval, failed, ctx, life, probe, nextIter,
                   assertLog>>

\* AfterSend for a runner that calls no PostRequest hook.
AfterSendNoPost == IF cfg.entry = "Retry" THEN "returned" ELSE "assert"

\* Where goroutine k goes when the request has been executed.
AfterSend ==
    IF cfg.entry = "Retry" THEN "returned"
    ELSE IF cfg.hasPost THEN "post" ELSE "assert"

\* A call of the wrapper alone ends when the wrapper returns.
CallerAfterSend ==
    /\ pc' = IF cfg.entry = "Retry" THEN "end" ELSE pc
    /\ exit' = IF cfg.entry = "Retry" THEN "return" ELSE exit

\* Send as the runners had it before request wrappers existed:
\* for j := range 5 { resp, err = w.HttpClient.Do(req); if err == nil { break } }
SendRetriedByRunner(k) ==
    /\ pc = "wait"
    /\ th[k].pc = "send"
    /\ ~cfg.hasWrapper
    /\ \E out \in SendOutsAfter(th[k].sends) :
        LET n == th[k].sends + 1
            over == out # 0 \/ n >= 5
        IN /\ th' = [th EXCEPT ![k].pc = IF over THEN AfterSend ELSE @,
                               ![k].sends = n,
                               ![k].outs = Append(@, out),
                               ![k].resp = out,
                               ![k].err = IF out = 0 THEN n ELSE 0,
                               ![k].body = BodyAfterDo(@),
                               ![k].stale = @ + StaleSend(th[k].body)]
           /\ its' = [its EXCEPT ![th[k].it].gotResp = (out # 0),
                                 ![th[k].it].gotErr = (out = 0 /\ over),
                                 ![th[k].req].users = @ \cup {th[k].it},
                                 ![th[k].it].via = "direct"]
    /\ UNCHANGED <<w, cfg, pc, exit, retval, failed, ctx, life, probe, nextIter,
                   assertLog>>

\* resp, err = w.HttpClient.Do(req), when no wrapper is set.  out = 0 is a
\* transport error, which comes with a nil response.
Send(k) ==
    /\ pc = "wait"
    /\ th[k].pc = "send"
    /\ ~cfg.hasWrapper
    /\ \E out \in SendOuts :
        /\ th' = [th EXCEPT ![k].pc = AfterSend,
                            ![k].sends = @ + 1,
                            ![k].outs = Append(@, out),
                            ![k].resp = out,
                            ![k].err = IF out = 0 THEN th[k].sends + 1 ELSE 0,
                            ![k].body = BodyAfterDo(@),
                            ![k].stale = @ + StaleSend(th[k].body)]
        /\ its' = [its EXCEPT ![th[k].it].gotResp = (out # 0),
                              ![th[k].it].gotErr = (out = 0),
                              ![th[k].req].users = @ \cup {th[k].it},
                              ![th[k].it].via = "direct"]
    /\ UNCHANGED <<w, cfg, pc, exit, retval, failed, ctx, life, probe, nextIter,
                   assertLog>>

\* RetryLoopBound for a wrapper that gives up one pass earlier.
RetryLoopBoundFour == 5 - 1

\* SimpleRetry: for i := range 5
RetryLoopBound == 5

\* RetryOn for a wrapper that also retries the responses of a failing server.
RetryOnServerError(out) == out = 0 \/ out >= 500

\* SimpleRetry: if err != nil { sleep; continue }
RetryOn(out) == out = 0

\* SleepFor as the doc comment of SimpleRetry has it: the delay starts at
\* baseSleep.
SleepForFromBase(i, baseSleep) == (i + 1) * baseSleep

\* SimpleRetry: time.Sleep(time.Duration(i * int(baseSleep)))
SleepFor(i, baseSleep) == i * baseSleep

\* NextErr for a wrapper that holds on to the first error it saw.
NextErrKeepFirst(prev, out, n) ==
    IF out # 0 THEN 0 ELSE IF prev # 0 THEN prev ELSE n

\* SimpleRetry: resp, err = w.HttpClient.Do(req) assigns the named result err
\* anew on every pass; n is the number of the send, prev the value err had.
NextErr(prev, out, n) == IF out = 0 THEN n ELSE 0

\* One pass of SimpleRetry's loop in goroutine k: Do, then either sleep and
\* continue (return nil, err after the last pass) or return resp, err.
RetryAttempt(k) ==
    /\ pc = "wait"
    /\ th[k].pc = "send"
    /\ cfg.hasWrapper
    /\ th[k].i < RetryLoopBound
    /\ \E out \in SendOutsAfter(th[k].sends) :
        LET n == th[k].sends + 1
            e == NextErr(th[k].err, out, n)
            last == th[k].i + 1 >= RetryLoopBound
        IN IF RetryOn(out)
           THEN /\ th' = [th EXCEPT
                             ![k].sends = n,
                             ![k].outs = Append(@, out),
                             ![k].sleeps = Append(@, SleepFor(th[k].i, cfg.baseSleep)),
                             ![k].resp = IF last THEN 0 ELSE out,
                             ![k].err = e,
                             ![k].i = @ + 1,
                             ![k].body = BodyAfterDo(@),
                             ![k].stale = @ + StaleSend(th[k].body),
                             ![k].pc = IF last THEN AfterSend ELSE @]
                /\ its' = [its EXCEPT
                              ![th[k].it].gotErr = IF last THEN e # 0 ELSE @,
                              ![th[k].req].users = @ \cup {th[k].it},
                              ![th[k].it].via = "wrapper"]
                /\ IF last THEN CallerAfterSend ELSE UNCHANGED <<pc, exit>>
           ELSE /\ th' = [th EXCEPT ![k].sends = n,
                                    ![k].outs = Append(@, out),
                                    ![k].resp = out,
                                    ![k].err = e,
                                    ![k].body = BodyAfterDo(@),
                                    ![k].stale = @ + StaleSend(th[k].body),
                                    ![k].pc = AfterSend]
                /\ its' = [its EXCEPT ![th[k].it].gotResp = (out # 0),
                                      ![th[k].it].gotErr = (e # 0),
                                      ![th[k].req].users = @ \cup {th[k].it},
                                      ![th[k].it].via = "wrapper"]
                /\ CallerAfterSend
    /\ UNCHANGED <<w, cfg, retval, failed, ctx, life, probe, nextIter, assertLog>>

\* if PostRequest != nil { PostRequest(resp) }
PostRequest(k) ==
    /\ pc = "wait"
    /\ th[k].pc = "post"
    /\ its' = [its EXCEPT ![th[k].it].post = @ + 1]
    /\ th' = [th EXCEPT ![k].pc = "assert"]
    /\ UNCHANGED <<w, cfg, pc, exit, retval, failed, ctx, life, probe, nextIter,
                   assertLog>>

\* What the caller's assertion callback may do: return, fail fatally, panic.
\* AssertResponse is a func(resp, err): the callback of a Test case is never
\* handed the t of its subtest, the only t it can fail is the one Test was
\* called with ("fatalParent", as the helpers AssertResponse... do with
\* tb.Fatalf in the example).  A benchmark's callback fails the b of the call.
AssertOutcomes ==
    IF cfg.entry = "Test" THEN {"pass", "fatalParent", "panic"}
    ELSE {"pass", "fatal", "panic"}

\* tt.AssertResponse(resp, err) / bm.AssertResponse(resp, err)
AssertResponse(k) ==
    /\ pc = "wait"
    /\ th[k].pc = "assert"
    /\ assertLog' = IF cfg.entry = "BenchmarkParallel" THEN assertLog
                    ELSE Append(assertLog, th[k].it)
    /\ \E o \in AssertOutcomes :
        /\ its' = [its EXCEPT ![th[k].it].asserts = @ + 1,
                              ![th[k].it].argResp = th[k].resp,
                              ![th[k].it].argErr = th[k].err,
                              ![th[k].it].outcome = o,
                              ![th[k].it].endKind =
                                  IF o = "pass" THEN @
                                  ELSE IF o = "panic" THEN "panic" ELSE "fatal"]
        /\ failed' = (failed \/ o # "pass")
        /\ IF o = "pass"
           THEN /\ th' = [th EXCEPT ![k].pc = "close"]
                /\ UNCHANGED <<pc, exit>>
           ELSE IF o = "fatal" THEN FatalIn(k)
           ELSE IF o = "fatalParent"
           THEN /\ Unwind("goexit")
                /\ th' = [th EXCEPT ![k] = ThInit]
           ELSE PanicIn(k)
    /\ UNCHANGED <<w, cfg, retval, ctx, life, probe, nextIter>>

\* resp.Body.Close(): a nil resp makes the statement panic.
CloseBody(k) ==
    /\ pc = "wait"
    /\ th[k].pc = "close"
    /\ IF th[k].resp = 0
       THEN /\ its' = [its EXCEPT ![th[k].it].endKind = "panic"]
            /\ failed' = TRUE
            /\ PanicIn(k)
       ELSE /\ its' = [its EXCEPT ![th[k].it].closed = @ + 1,
                                  ![th[k].it].endKind = "normal"]
            /\ IterDone(k)
            /\ UNCHANGED failed
    /\ UNCHANGED <<w, cfg, retval, ctx, life, probe, nextIter, assertLog>>

\* ------------------------------------------------------------ specifications
\* A call of Test, Benchmark or BenchmarkParallel.
Next ==
    \/ Setup
    \/ Started
    \/ ProbeAttempt
    \/ ProbeCheck
    \/ TestLoop
    \/ BenchmarkLoop
    \/ RunParallel
    \/ ParallelJoin
    \/ \E k \in Threads :
        \/ PBNext(k)
        \/ PreRequest(k)
        \/ Send(k)
        \/ RetryAttempt(k)
        \/ PostRequest(k)
        \/ AssertResponse(k)
        \/ CloseBody(k)
    \/ DeferCancel
    \/ Shutdown
    \/ ShutdownReturns

Spec == Init /\ [][Next]_vars

\* A call of the function HealthCheckReadinessProbe(url, timeout, sleep)
\* returns, with a context its caller may cancel.
ProbeCfgs ==
    [entry : {"Probe"}, hasStart : {FALSE}, hasProbe : {TRUE},
     hasWrapper : {FALSE}, hasPre : {FALSE}, hasPost : {FALSE}, n : {0},
     workers : {1}, timeout : 0..MaxTimeout, sleep : 1..MaxSleep,
     maxAttempts : {HarnessMaxAttempts}, baseSleep : {HarnessBaseSleep}]

InitProbe ==
    /\ cfg \in ProbeCfgs
    /\ w = WisentOf(cfg)
    /\ pc = "probe"
    /\ probe = [ProbeInit EXCEPT !.state = ProbeEntry]
    /\ th = [k \in Threads |-> ThInit]
    /\ InitCommon

NextProbe == ProbeAttempt \/ ProbeCheck \/ CancelCtx

SpecProbe == InitProbe /\ [][NextProbe]_vars

\* The probe's goroutine keeps running and every attempt returns.
FairSpecProbe ==
    SpecProbe /\ WF_vars(ProbeAttempt) /\ WF_vars(ProbeCheck)

\* A call of the wrapper SimpleRetry(maxAttempts, baseSleep) returns.
RetryCfgs ==
    [entry : {"Retry"}, hasStart : {FALSE}, hasProbe : {FALSE},
     hasWrapper : {TRUE}, hasPre : {FALSE}, hasPost : {FALSE}, n : {1},
     workers : {1}, timeout : {0}, sleep : {1},
     maxAttempts : 1..MaxAttemptsArg, baseSleep : 0..MaxBaseSleep,
     hasBody : BOOLEAN]

InitRetry ==
    /\ cfg \in RetryCfgs
    /\ w = WisentOf(cfg)
    /\ pc = "wait"
    /\ probe = ProbeInit
    /\ th = [k \in Threads |->
               IF k = 1 THEN [ThInit EXCEPT !.pc = "send", !.it = 1, !.req = 1,
                                            !.body = NewBody]
               ELSE ThInit]
    /\ InitCommon

NextRetry == RetryAttempt(1)

SpecRetry == InitRetry /\ [][NextRetry]_vars

\* ---------------------------------------------------------------------- New
\* OrDefault for a New that installs its own client and logger in any case.
OrDefaultAlways(v, d) == d

\* if w.HttpClient == nil { w.HttpClient = DefaultHttpClient() }, and the same
\* for the logger.
OrDefault(v, d) == IF v = 0 THEN d ELSE v

\* An option With...(val) applied to x: func(w *Wisent) { w.field = val }.
ApplyOpt(x, o) == [x EXCEPT ![o.field] = o.val]

\* for _, opt := range options { opt(w) }: one pass.
ApplyOption ==
    /\ pc = "new"
    /\ nextIter < Len(cfg.opts)
    /\ w' = ApplyOpt(w, cfg.opts[nextIter + 1])
    /\ nextIter' = nextIter + 1
    /\ UNCHANGED <<cfg, pc, exit, retval, failed, ctx, life, probe, th, its,
                   assertLog>>

\* The options are applied: the two nil checks, then return w.
NewDefaults ==
    /\ pc = "new"
    /\ nextIter = Len(cfg.opts)
    /\ w' = [w EXCEPT !.HttpClient = OrDefault(@, DefaultHttpClient),
                      !.Logger = OrDefault(@, DiscardLogger)]
    /\ pc' = "end"
    /\ exit' = "return"
    /\ UNCHANGED <<cfg, retval, failed, ctx, life, probe, th, nextIter, its,
                   assertLog>>

\* The options a caller may hand to New, nil values included.
Options == [field : OptFields, val : 0..MaxOptVal]

\* A call New(baseUrl, options...).
NewCfgs ==
    [entry : {"New"}, baseUrl : {1},
     opts : UNION {[1..n -> Options] : n \in 0..MaxOpts}]

InitNew ==
    /\ cfg \in NewCfgs
    /\ w = ZeroWisent(cfg.baseUrl)
    /\ pc = "new"
    /\ probe = ProbeInit
    /\ th = [k \in Threads |-> ThInit]
    /\ InitCommon

NextNew == ApplyOption \/ NewDefaults

SpecNew == InitNew /\ [][NextNew]_vars

\* ------------------------------------------------------ assertion helpers
\* A response as the helpers see it: its status code, what is left to read of
\* its body, and whether reading the body fails; status 0 is the nil response.
NilResp == [status |-> 0, body |-> <<>>, readErr |-> FALSE]

Bodies == UNION {[1..n -> {"a", "b"}] : n \in 0..MaxBody}

Responses ==
    {NilResp} \cup [status : {200, 201, 400}, body : Bodies, readErr : BOOLEAN]

\* AssertResponseError: if err != nil { tb.Fatalf(...) }
ErrorVerdict(err) == IF err # 0 THEN "fatal" ELSE "pass"

\* StatusCodeVerdict for a helper that compares the classes of the codes.
StatusClassVerdict(expected, resp) ==
    IF resp = NilResp THEN "panic"
    ELSE IF resp.status \div 100 # expected \div 100 THEN "fatal"
    ELSE "pass"

\* AssertResponseStatusCode: if resp.StatusCode != expected { tb.Fatalf(...) };
\* resp.StatusCode of a nil response panics.
StatusCodeVerdict(expected, resp) ==
    IF resp = NilResp THEN "panic"
    ELSE IF resp.status # expected THEN "fatal"
    ELSE "pass"

\* AssertResponseBody: io.ReadAll(resp.Body), tb.Fatalf on a read error, then
\* tb.Fatalf if string(actualBody) != expected; resp.Body of a nil response
\* panics.
BodyVerdict(expected, resp) ==
    IF resp = NilResp THEN "panic"
    ELSE IF resp.readErr THEN "fatal"
    ELSE IF resp.body # expected THEN "fatal"
    ELSE "pass"

\* The helper ends with verdict v: it returns, tb.Fatalf has marked the test
\* failed and ended the goroutine, or the goroutine panics.
HelperEnds(v) ==
    /\ retval' = v
    /\ failed' = (v = "fatal")
    /\ exit' = (CASE v = "pass" -> "return"
                  [] v = "fatal" -> "goexit"
                  [] v = "panic" -> "panic")
    /\ pc' = "end"
    /\ UNCHANGED <<w, cfg, ctx, life, probe, th, nextIter, its, assertLog>>

AssertResponseError ==
    /\ pc = "assert"
    /\ cfg.helper = "Error"
    /\ HelperEnds(ErrorVerdict(cfg.err))

AssertResponseStatusCode ==
    /\ pc = "assert"
    /\ cfg.helper = "StatusCode"
    /\ HelperEnds(StatusCodeVerdict(cfg.expStatus, cfg.resp))

AssertResponseBody ==
    /\ pc = "assert"
    /\ cfg.helper = "Body"
    /\ HelperEnds(BodyVerdict(cfg.expBody, cfg.resp))

\* A call of one of the three helpers.
AssertCfgs ==
    [entry : {"Assert"}, helper : {"Error", "StatusCode", "Body"},
     err : {0, 1}, resp : Responses, expStatus : {200, 400}, expBody : Bodies,
     hasStart : {FALSE}, hasProbe : {FALSE}, hasWrapper : {FALSE}]

InitAssert ==
    /\ cfg \in AssertCfgs
    /\ w = WisentOf(cfg)
    /\ pc = "assert"
    /\ probe = ProbeInit
    /\ th = [k \in Threads |-> ThInit]
    /\ InitCommon

NextAssert ==
    AssertResponseError \/ AssertResponseStatusCode \/ AssertResponseBody

SpecAssert == InitAssert /\ [][NextAssert]_vars

\* ------------------------------------- Benchmark copying a prepared request
\* The first version of Benchmark (main.go) is handed one request bm.Request,
\* reads its body into a buffer before the loop and builds the request of
\* every iteration with copyRequest.  Texts are sequences of characters.

\* The first position of character c in text t, 0 when there is none.
FirstIndex(t, c) ==
    IF \E i \in 1..Len(t) : t[i] = c
    THEN CHOOSE i \in 1..Len(t) :
            t[i] = c /\ \A j \in 1..(i - 1) : t[j] # c
    ELSE 0

\* url.Parse, as http.NewRequestWithContext calls it on its url argument: the
\* query is what follows the first "?", the scheme what precedes a ":" that
\* comes before any "/", the host what stands between "//" and the next "/",
\* the path the rest.
ParseURL(t) ==
    LET q == FirstIndex(t, "?")
        main == IF q = 0 THEN t ELSE SubSeq(t, 1, q - 1)
        query == IF q = 0 THEN <<>> ELSE SubSeq(t, q + 1, Len(t))
        c == FirstIndex(main, ":")
        sl == FirstIndex(main, "/")
        hasScheme == c > 1 /\ (sl = 0 \/ c < sl)
        scheme == IF hasScheme THEN SubSeq(main, 1, c - 1) ELSE <<>>
        rest == IF hasScheme THEN SubSeq(main, c + 1, Len(main)) ELSE main
        hasAuth == Len(rest) >= 2 /\ rest[1] = "/" /\ rest[2] = "/"
        after == IF hasAuth THEN SubSeq(rest, 3, Len(rest)) ELSE rest
        s2 == FirstIndex(after, "/")
        host == IF ~hasAuth THEN <<>>
                ELSE IF s2 = 0 THEN after ELSE SubSeq(after, 1, s2 - 1)
        path == IF ~hasAuth THEN rest
                ELSE IF s2 = 0 THEN <<>> ELSE SubSeq(after, s2, Len(after))
    IN [Scheme |-> scheme, Host |-> host, Path |-> path, RawQuery |-> query]

\* req.URL.String(): scheme and ":", "//" and the host when there is a scheme
\* or a host and a host or a path to write, a "/" before a path that does not
\* start with one and follows a host, the path, "?" and the query.
URLString(u) ==
    (IF u.Scheme # <<>> THEN u.Scheme \o <<":">> ELSE <<>>)
    \o (IF (u.Scheme # <<>> \/ u.Host # <<>>)
            /\ (u.Host # <<>> \/ u.Path # <<>>)
        THEN <<"/", "/">> \o u.Host ELSE <<>>)
    \o (IF u.Path # <<>> /\ u.Path[1] # "/" /\ u.Host # <<>>
        THEN <<"/">> ELSE <<>>)
    \o u.Path
    \o (IF u.RawQuery # <<>> THEN <<"?">> \o u.RawQuery ELSE <<>>)

\* The URLs of the requests handed to Benchmark: what url.Parse made of the
\* text w.BaseURL + url that NewRequest was given, or of a bare path.
URLTexts ==
    {<<"h", ":", "/", "/", "a">>,
     <<"h", ":", "/", "/", "a", "/">>,
     <<"h", ":", "/", "/", "a", "/", "x">>,
     <<"h", ":", "/", "/", "a", "/", "x", "?", "q">>,
     <<"/", "x">>}

URLs == {ParseURL(t) : t \in URLTexts}

\* req.Method; the empty method of a client request stands for GET.
Methods == {"", "GET", "POST"}

MethodOf(m) == IF m = "" THEN "GET" ELSE m

\* req.Header: a map from the names of the headers present to their values.
HeaderKeys == {"Content-Type", "Authorization"}

Headers == UNION {[K -> 1..MaxHeaderVal] : K \in SUBSET HeaderKeys}

\* http.NewRequestWithContext starts the new request with make(Header).
EmptyHeader == [k \in {} |-> 1]

\* req.Body: nil, or a stream with the bytes left to read, which may fail
\* when it is read.
NilBody == [nil |-> TRUE, bytes |-> <<>>, readErr |-> FALSE]

RequestBodies ==
    {NilBody} \cup [nil : {FALSE}, bytes : Bodies, readErr : BOOLEAN]

Requests == [Method : Methods, URL : URLs, Header : Headers, Body : RequestBodies]

\* http.NewRequestWithContext(ctx, method, url, strings.NewReader(text)): an
\* empty method becomes GET, the url is parsed, the header map is new and
\* empty, the body reads text.
NewRequestWithContext(method, url, text) ==
    [Method |-> MethodOf(method),
     URL |-> ParseURL(url),
     Header |-> EmptyHeader,
     Body |-> [nil |-> FALSE, bytes |-> text, readErr |-> FALSE]]

\* The request whose headers copyRequest ranges over.  req, err := ... in the
\* body of the function assigns to the parameter req, which is declared in
\* the same block: from then on req is the new request, and
\* for k, v := range req.Header { req.Header[k] = v } reads the map it writes.
CopyHeaderFrom(orig, new) == new.Header

\* copyRequest(ctx, req, body)
copyRequest(req, body) ==
    LET new == NewRequestWithContext(req.Method, URLString(req.URL), body)
        from == CopyHeaderFrom(req, new)
    IN [new EXCEPT !.Header =
           [k \in DOMAIN new.Header \cup DOMAIN from |->
               IF k \in DOMAIN from THEN from[k] ELSE new.Header[k]]]

\* The locals of the call: bodyBuffer and the req of the current iteration
\* (made = FALSE before the first).
CopyLocals(buffer, made, req) ==
    [bodyBuffer |-> buffer, made |-> made, req |-> req]

\* var bodyBuffer bytes.Buffer; if bm.Request.Body != nil { io.Copy(&bodyBuffer,
\* bm.Request.Body); on an error return it }
CopyReadBody ==
    /\ pc = "read"
    /\ IF cfg.req.Body.nil
       THEN /\ pc' = "loop"
            /\ UNCHANGED <<th, exit, retval>>
       ELSE IF cfg.req.Body.readErr
       THEN /\ pc' = "end"
            /\ exit' = "return"
            /\ retval' = "error"
            /\ UNCHANGED th
       ELSE /\ th' = [th EXCEPT ![1] = CopyLocals(cfg.req.Body.bytes, FALSE,
                                                  th[1].req)]
            /\ pc' = "loop"
            /\ UNCHANGED <<exit, retval>>
    /\ UNCHANGED <<w, cfg, failed, ctx, life, probe, nextIter, its, assertLog>>

\* for i := 0; i < b.N && ...; i++ { req := copyRequest(ctx, bm.Request,
\* bodyBuffer); ... }: one pass; what follows the copy in the pass works on
\* req and leaves bm.Request and bodyBuffer alone.
CopyIteration ==
    /\ pc = "loop"
    /\ nextIter < cfg.n
    /\ th' = [th EXCEPT ![1] = CopyLocals(th[1].bodyBuffer, TRUE,
                                         copyRequest(cfg.req, th[1].bodyBuffer))]
    /\ nextIter' = nextIter + 1
    /\ UNCHANGED <<w, cfg, pc, exit, retval, failed, ctx, life, probe, its,
                   assertLog>>

\* The loop is over: return nil.
CopyReturn ==
    /\ pc = "loop"
    /\ nextIter >= cfg.n
    /\ pc' = "end"
    /\ exit' = "return"
    /\ retval' = "nil"
    /\ UNCHANGED <<w, cfg, failed, ctx, life, probe, th, nextIter, its, assertLog>>

\* A call of the copying Benchmark on a harness without start function and
\* probe, from the reading of the body on.
CopyCfgs ==
    [entry : {"Copy"}, req : Requests, n : 0..MaxCases,
     hasStart : {FALSE}, hasProbe : {FALSE}, hasWrapper : {FALSE}]

InitCopy ==
    /\ cfg \in CopyCfgs
    /\ w = WisentOf(cfg)
    /\ pc = "read"
    /\ probe = ProbeInit
    /\ th = [k \in Threads |-> CopyLocals(<<>>, FALSE, cfg.req)]
    /\ InitCommon

NextCopy == CopyReadBody \/ CopyIteration \/ CopyReturn

SpecCopy == InitCopy /\ [][NextCopy]_vars

\* ------------------------------------------------------------------ claims
Ended == pc \in {"end", "crashed"}

\* No assertion callback of the run has panicked or failed the parent t: what
\* goes wrong in such a run is the harness's doing.
CallbacksBehave ==
    \A it \in Iters : its[it].outcome \in {"none", "pass", "fatal"}

\* No goroutine is inside a case or an iteration.
NoneRunning == \A k \in Threads : th[k].pc \in {"idle", "next", "done", "dead"}

\* C1: when a call of Test, Benchmark or BenchmarkParallel on a harness with a
\* start function is over, the shutdown function has been invoked exactly
\* once, and it is not invoked while a case or iteration is running.  Stated
\* for the runs whose callbacks neither panic nor fail the parent t; it fails:
\* a send error followed by an assertion that returns makes resp.Body.Close()
\* panic, which in Test and BenchmarkParallel ends the process with the
\* deferred shutdown never run.
C1_ShutdownExactlyOnce ==
    (cfg.entry \in Entries /\ cfg.hasStart /\ CallbacksBehave) =>
        /\ life.shutdownCalls <= 1
        /\ life.shutdownCalls = 1 => NoneRunning
        /\ Ended => life.shutdownCalls = 1

\* C2: after a probe that failed no case and no iteration is executed.  It
\* fails: the entry points drop the error the probe returns.
C2_NoCaseAfterFailedProbe ==
    (cfg.entry \in Entries /\ probe.result \in {"timeout", "cancelled"}) =>
        /\ nextIter = 0
        /\ \A it \in Iters : its[it].runs = 0 /\ its[it].asserts = 0

\* C3: a call whose probe failed does not return nil without reporting the
\* run as failed.  It fails: every entry point ends in return nil.
C3_ProbeFailureSurfaced ==
    (cfg.entry \in Entries /\ pc = "end" /\ exit = "return"
       /\ probe.result \in {"timeout", "cancelled"}) =>
        (retval # "nil" \/ failed)

\* The probe ran against a target that never answered 200, with a context
\* that was never cancelled, and has returned.
ProbeGaveUp ==
    /\ cfg.entry = "Probe"
    /\ probe.state = "done"
    /\ ~probe.saw200
    /\ ~ctx.cancelled

\* C4 as claimed: such a probe returns ErrHealthCheckTimeout no later than
\* timeout + one polling interval after it started.
C4_TimeoutWithinOneInterval ==
    ProbeGaveUp =>
        /\ probe.result = "timeout"
        /\ probe.elapsed <= cfg.timeout + cfg.sleep

C4_Safe ==
    ProbeGaveUp =>
        /\ probe.result = "timeout"
        /\ probe.elapsed <= cfg.timeout + cfg.sleep + probe.lastDur

\* C4 as amended: the probe always returns, and against a target that never
\* answers 200, with the context never cancelled, it returns
\* ErrHealthCheckTimeout no later than timeout + one polling interval + the
\* duration of its last attempt after it started.
C4_TimeoutWithinIntervalAndAttempt ==
    []C4_Safe /\ <>(probe.state = "done")

\* C4's case: the probe gave up later than timeout + one interval.
C4_Witness ==
    /\ ProbeGaveUp
    /\ probe.result = "timeout"
    /\ probe.attempts >= 2
    /\ probe.elapsed > cfg.timeout + cfg.sleep

\* C5: when a call of Test is over, the assertion of every case has run
\* exactly once, in the order of the cases.  Stated for the runs whose
\* callbacks neither panic nor fail the parent t; it fails by the panic of
\* resp.Body.Close() on a nil response (C7), after which no later case runs.
C5_AssertOncePerCaseInOrder ==
    (cfg.entry = "Test" /\ Ended /\ CallbacksBehave) =>
        assertLog = [i \in 1..cfg.n |-> i]

\* C6: a case or iteration that got a response and whose assertion returned
\* or failed fatally has ended with the body of that response closed exactly
\* once.  It fails: the Close is not deferred, and a fatal assertion ends the
\* goroutine before it.
C6_BodyClosedOnEveryPath ==
    \A it \in Iters :
        (cfg.entry \in Entries /\ its[it].gotResp
           /\ its[it].outcome \in {"pass", "fatal", "fatalParent"}
           /\ its[it].endKind # "none") =>
            its[it].closed = 1

\* C7: a case or iteration whose send ended in a transport error hands that
\* error to the assertion, and when the assertion returns the case ends
\* normally.  It fails: resp.Body.Close() runs on the nil response and panics.
C7_TransportErrorLeftToAssertion ==
    \A it \in Iters :
        (cfg.entry \in Entries /\ its[it].gotErr /\ its[it].asserts > 0) =>
            /\ its[it].argErr # 0
            /\ its[it].argResp = 0
            /\ (its[it].outcome = "pass" /\ its[it].endKind # "none") =>
                   its[it].endKind = "normal"

\* C8: when a call of BenchmarkParallel is over, each of the b.N iterations
\* has been executed exactly once.  Stated for the runs in which every
\* assertion returns; it fails by the panic of C7, which ends the process with
\* iterations left on the counter.
C8_QuotaExecutedExactlyOnce ==
    (cfg.entry = "BenchmarkParallel" /\ Ended
       /\ \A it \in Iters : its[it].outcome \in {"none", "pass"}) =>
        \A it \in Iters :
            its[it].runs = (IF it <= cfg.n THEN 1 ELSE 0)
            /\ its[it].asserts = its[it].runs

\* C9: one call of the wrapper SimpleRetry(maxAttempts, baseSleep) sends at
\* most maxAttempts times.  It fails: the loop runs 5 times whatever
\* maxAttempts is.
C9_AtMostMaxAttemptsSends ==
    cfg.entry = "Retry" => th[1].sends <= cfg.maxAttempts

RECURSIVE SumSeq(_)
SumSeq(q) == IF q = <<>> THEN 0 ELSE Head(q) + SumSeq(Tail(q))

\* 0 + 1 + ... + (n - 1)
Triangle(n) == (n * (n - 1)) \div 2

\* The call of the wrapper has returned the response of its last send.
RetrySucceeded ==
    /\ cfg.entry = "Retry"
    /\ th[1].pc = "returned"
    /\ th[1].resp # 0

C12_DelayStartsAtBaseSleep ==
    cfg.entry = "Retry" =>
        \A j \in 1..Len(th[1].sleeps) : th[1].sleeps[j] = j * cfg.baseSleep

\* Every send of the call of the wrapper failed and the call has returned.
RetryExhausted ==
    /\ cfg.entry = "Retry"
    /\ th[1].pc = "returned"
    /\ \A j \in 1..Len(th[1].outs) : th[1].outs[j] = 0

\* C13: a call of SimpleRetry whose sends all failed returns the nil response
\* and the error of its last send, no earlier one.
C13_ExhaustedReturnsLastError ==
    RetryExhausted =>
        /\ th[1].resp = 0
        /\ th[1].err = th[1].sends
        /\ th[1].err = Len(th[1].outs)

\* C13's case: five failed sends, the call returns the fifth error.
C13_Witness ==
    /\ RetryExhausted
    /\ th[1].sends = 5
    /\ th[1].err = 5
    /\ th[1].resp = 0

\* C14: in a call of Benchmark the request factory is called once for every
\* iteration that is started, never twice, and the request an iteration
\* sends is the one made for it, which no other iteration sends; a call that
\* returns has called the factory once for each of the b.N iterations.
C14_FactoryOncePerIteration ==
    cfg.entry = "Benchmark" =>
        /\ \A it \in Iters :
              /\ its[it].factory = its[it].runs
              /\ its[it].factory <= 1
              /\ its[it].users \subseteq {it}
        /\ th[1].it # 0 => th[1].req = th[1].it
        /\ (pc = "end" /\ exit = "return") =>
              \A it \in Iters : its[it].factory = (IF it <= cfg.n THEN 1 ELSE 0)

\* C14's case: a call of Benchmark with b.N = 2 has returned, each of the two
\* iterations having sent the request of its own factory call.
C14_Witness ==
    /\ cfg.entry = "Benchmark"
    /\ cfg.n = 2
    /\ pc = "end"
    /\ exit = "return"
    /\ its[1].factory = 1 /\ its[1].users = {1}
    /\ its[2].factory = 1 /\ its[2].users = {2}

\* A benchmark runner with no request wrapper set.
BareBenchmark ==
    /\ cfg.entry \in {"Benchmark", "BenchmarkParallel"}
    /\ ~cfg.hasWrapper

\* C15: with no request wrapper, an iteration of Benchmark or
\* BenchmarkParallel sends its request at most once, and exactly once before
\* its PostRequest, its assertion and its Close, also when the send failed.
C15_RunnerDoesNotRetry ==
    BareBenchmark =>
        \A k \in Threads :
            /\ th[k].sends <= 1
            /\ Len(th[k].outs) = th[k].sends
            /\ th[k].pc \in {"post", "assert", "close"} => th[k].sends = 1

\* C15's case: the one send of an iteration failed and the iteration is at
\* its assertion, the error in hand.
C15_Witness ==
    /\ BareBenchmark
    /\ \E k \in Threads :
          /\ th[k].pc = "assert"
          /\ th[k].outs = <<0>>
          /\ th[k].err = 1
          /\ th[k].resp = 0

\* C16: when a call of Test is over in which nothing panicked, every case
\* has been executed, its request sent and its assertion invoked, whichever
\* assertions failed fatally.  It fails: the assertion of a case can only
\* fail the t that Test was called with, and after such a case t.Run ends
\* the caller, so no later case is started.
C16_FatalCaseDoesNotBlockOthers ==
    (cfg.entry = "Test" /\ Ended
       /\ \A it \in Iters : its[it].endKind # "panic") =>
        \A it \in 1..cfg.n :
            /\ its[it].runs = 1
            /\ its[it].users = {it}
            /\ its[it].asserts = 1

\* Some case or iteration has been started.
SomeStarted == \E it \in Iters : its[it].runs > 0

\* The phase of the run: Idle 0, Starting 1, Probing 2, Running 3,
\* ShuttingDown 4, Done 5.  A process that a panic ended stays in Running.
PhaseRank ==
    CASE pc = "idle" -> 0
      [] pc = "starting" -> 1
      [] pc = "probe" -> 2
      [] pc \in {"loop", "wait", "crashed"} -> 3
      [] pc \in {"defer", "shutdown", "inShutdown"} -> 4
      [] pc = "end" -> 5

C17_Order ==
    cfg.entry \in Entries =>
        /\ pc = "starting" => (cfg.hasStart /\ probe = ProbeInit)
        /\ PhaseRank >= 2 => life.startCalls = (IF cfg.hasStart THEN 1 ELSE 0)
        /\ PhaseRank < 3 => (~SomeStarted /\ NoneRunning)
        /\ SomeStarted => probe.state = (IF cfg.hasProbe THEN "done" ELSE "idle")
        /\ (ctx.cancelCalls > 0 \/ life.shutdownCalls > 0) =>
              (NoneRunning /\ pc \in {"shutdown", "inShutdown", "end"})
        /\ life.shutdownCalls > 0 => ctx.cancelCalls = 1
        /\ ~cfg.hasStart => (life.startCalls = 0 /\ life.shutdownCalls = 0)
        /\ ~cfg.hasProbe => (pc # "probe" /\ probe = ProbeInit)
        /\ pc = "end" =>
              /\ ctx.cancelCalls = 1
              /\ life.shutdownCalls = (IF cfg.hasStart THEN 1 ELSE 0)

C19_CancelOnceWithoutStart ==
    (cfg.entry \in Entries /\ ~cfg.hasStart /\ CallbacksBehave) =>
        /\ life.startCalls = 0
        /\ life.shutdownCalls = 0
        /\ ctx.cancelCalls <= 1
        /\ Ended => (ctx.cancelCalls = 1 /\ ctx.cancelled)

\* C20: when a call of Benchmark, whose loop has no cap, is over, each of the
\* b.N iterations has been executed, once, to its end.  Stated for the runs
\* in which every assertion returns; it fails by the panic of C7, which ends
\* the loop at the iteration whose send failed.
C20_ExactlyNIterations ==
    (cfg.entry = "Benchmark" /\ Ended
       /\ \A it \in Iters : its[it].outcome \in {"none", "pass"}) =>
        /\ nextIter = cfg.n
        /\ \A it \in 1..cfg.n :
              its[it].runs = 1 /\ its[it].endKind = "normal"

\* The value the last option for field f in opts carries, 0 when there is none.
LastSet(opts, f) ==
    LET idx == {i \in 1..Len(opts) : opts[i].field = f}
    IN IF idx = {} THEN 0
       ELSE opts[CHOOSE i \in idx : \A j \in idx : j <= i].val

C18_Built ==
    (cfg.entry = "New" /\ pc = "end") =>
        /\ w.HttpClient # 0
        /\ w.Logger # 0
        /\ w.HttpClient = (IF LastSet(cfg.opts, "HttpClient") # 0
                           THEN LastSet(cfg.opts, "HttpClient")
                           ELSE DefaultHttpClient)
        /\ w.Logger = (IF LastSet(cfg.opts, "Logger") # 0
                       THEN LastSet(cfg.opts, "Logger")
                       ELSE DiscardLogger)
        /\ \A f \in {"Start", "ReadinessProbe", "RequestWrapper"} :
              w[f] = LastSet(cfg.opts, f)
        /\ w.BaseURL = cfg.baseUrl

C18_OneField ==
    (cfg.entry = "New" /\ nextIter' = nextIter + 1) =>
        \A f \in DOMAIN w :
            f # cfg.opts[nextIter'].field => w'[f] = w[f]

\* C18: whatever options New is handed, the Wisent it returns has a client
\* and a logger: the last one an option set when that is not nil, the
\* default client and the discarding logger otherwise; every other field
\* holds the value of the last option that set it; and applying an option
\* changes no field but its own.
C18_NewInstallsDefaults ==
    []C18_Built /\ [][C18_OneField]_vars

\* C18's case: New was handed two clients and a nil logger; it returns the
\* second client and the discarding logger.
C18_Witness ==
    /\ cfg.entry = "New"
    /\ pc = "end"
    /\ cfg.opts = <<[field |-> "HttpClient", val |-> 1],
                    [field |-> "HttpClient", val |-> 2],
                    [field |-> "Logger", val |-> 0]>>
    /\ w.HttpClient = 2
    /\ w.Logger = DiscardLogger

\* C24, in every state: the probe returns success only when its last attempt
\* was answered 200, and it is at its cancellation/timeout check only after
\* an attempt that was not.
C24_State ==
    cfg.entry = "Probe" =>
        /\ probe.result \in {"none", "ok", "timeout", "cancelled"}
        /\ probe.result = "ok" <=> (probe.state = "done" /\ probe.last = 200)
        /\ probe.state = "check" => probe.last # 200

\* C24, in every step: after a response with a status other than 200 the
\* probe either returns the cancellation or the timeout error or sleeps one
\* interval and makes a fresh attempt.
C24_Step ==
    (cfg.entry = "Probe" /\ probe.state = "check" /\ probe.last \notin {0, 200}
       /\ probe' # probe) =>
        \/ probe'.state = "done" /\ probe'.result \in {"cancelled", "timeout"}
        \/ /\ probe'.state = "attempt"
           /\ probe'.sleeps = probe.sleeps + 1
           /\ probe'.result = "none"

\* C24: status 200 is the only success of HealthCheckReadinessProbe; every
\* other status leads to the cancellation/timeout check and from there to a
\* sleep and a fresh attempt, never to an error of its own.
C24_Only200IsReady ==
    []C24_State /\ [][C24_Step]_vars

\* C24's case: a 204 was slept on and the following attempt, answered 200,
\* made the probe return success.
C24_Witness ==
    /\ cfg.entry = "Probe"
    /\ probe.state = "done"
    /\ probe.result = "ok"
    /\ probe.attempts = 2
    /\ probe.sleeps = 1

\* C25, in every step of the check after an attempt that did not succeed:
\* a cancelled context gives the cancellation error whatever the clock says,
\* else an elapsed time of at least the timeout gives the timeout error, else
\* the probe sleeps one interval and retries.
C25_Step ==
    (cfg.entry = "Probe" /\ probe.state = "check" /\ probe' # probe) =>
        IF ctx.cancelled
        THEN probe'.state = "done" /\ probe'.result = "cancelled"
        ELSE IF probe.elapsed >= cfg.timeout
        THEN probe'.state = "done" /\ probe'.result = "timeout"
        ELSE /\ probe'.state = "attempt"
             /\ probe'.elapsed = probe.elapsed + cfg.sleep
             /\ probe'.sleeps = probe.sleeps + 1

\* C25: HealthCheckReadinessProbe checks cancellation before the timeout; the
\* timeout error is returned only with the context not cancelled.
C25_CancellationBeforeTimeout ==
    /\ [][C25_Step]_vars
    /\ []((cfg.entry = "Probe" /\ probe.result = "timeout") => ~ctx.cancelled)
    /\ []((cfg.entry = "Probe" /\ probe.result = "cancelled") => ctx.cancelled)

\* C25's case: the context was cancelled and the timeout had elapsed; the
\* probe returned the cancellation error.
C25_Witness ==
    /\ cfg.entry = "Probe"
    /\ probe.state = "done"
    /\ probe.result = "cancelled"
    /\ cfg.timeout > 0
    /\ probe.elapsed >= cfg.timeout

C21_HelpersFailOnMismatch ==
    (cfg.entry = "Assert" /\ pc = "end") =>
        /\ failed <=> retval = "fatal"
        /\ cfg.helper = "Error" =>
              /\ retval \in {"pass", "fatal"}
              /\ retval = "fatal" <=> cfg.err # 0
        /\ (cfg.helper = "StatusCode" /\ cfg.resp # NilResp) =>
              /\ retval \in {"pass", "fatal"}
              /\ retval = "fatal" <=> cfg.resp.status # cfg.expStatus
        /\ (cfg.helper = "Body" /\ cfg.resp # NilResp) =>
              /\ retval \in {"pass", "fatal"}
              /\ cfg.resp.readErr => retval = "fatal"
              /\ ~cfg.resp.readErr =>
                    (retval = "fatal" <=> cfg.resp.body # cfg.expBody)

\* C21's case: a 400 response passes the check for 400.
C21_Witness ==
    /\ cfg.entry = "Assert"
    /\ pc = "end"
    /\ cfg.helper = "StatusCode"
    /\ cfg.resp # NilResp
    /\ cfg.resp.status = 400
    /\ cfg.expStatus = 400
    /\ retval = "pass"
    /\ ~failed

\* The request of case / iteration `it` has been executed: the wrapper or the
\* direct send has come back.
Executed(it) == its[it].gotResp \/ its[it].gotErr

\* C22: in every case and iteration each step runs at most once and in this
\* order: the PreRequest hook when there is one, the execution of the request
\* by the wrapper when one is set and by one direct send otherwise, the
\* PostRequest hook when there is one (after a failed send too), the assertion
\* callback, the Close of the response body.
C22_StepsInOrder ==
    cfg.entry \in Entries =>
        /\ \A it \in Iters :
              /\ its[it].runs <= 1 /\ its[it].pre <= 1 /\ its[it].post <= 1
              /\ its[it].asserts <= 1 /\ its[it].closed <= 1
              /\ its[it].pre = 1 => (cfg.hasPre /\ its[it].runs = 1)
              /\ its[it].users # {} =>
                    /\ its[it].pre = (IF cfg.hasPre THEN 1 ELSE 0)
                    /\ its[it].via =
                          (IF cfg.hasWrapper THEN "wrapper" ELSE "direct")
              /\ Executed(it) => its[it].users # {}
              /\ its[it].post = 1 => (cfg.hasPost /\ Executed(it))
              /\ its[it].asserts = 1 =>
                    /\ Executed(it)
                    /\ its[it].post = (IF cfg.hasPost THEN 1 ELSE 0)
              /\ its[it].closed = 1 =>
                    (its[it].asserts = 1 /\ its[it].outcome = "pass")
        /\ ~cfg.hasWrapper => \A k \in Threads : th[k].sends <= 1

\* C22's case: with both hooks set, one case went through all five steps and
\* the next one, whose send failed, through its PostRequest hook and its
\* assertion.
C22_Witness ==
    /\ cfg.entry \in Entries
    /\ cfg.hasPre /\ cfg.hasPost
    /\ its[1].pre = 1 /\ its[1].post = 1 /\ its[1].asserts = 1
    /\ its[1].closed = 1
    /\ its[2].pre = 1 /\ its[2].gotErr /\ its[2].post = 1
    /\ its[2].asserts = 1

\* C23: Test runs its cases one at a time: only the goroutine of the latest
\* case is running, the cases started are the first nextIter ones, and every
\* case before the latest has ended.
C23_OneCaseAtATime ==
    cfg.entry = "Test" =>
        /\ \A k \in Threads : k # 1 => th[k] = ThInit
        /\ th[1].it \in {0, nextIter}
        /\ \A it \in Iters :
              /\ its[it].runs > 0 <=> it <= nextIter
              /\ it < nextIter => its[it].endKind # "none"
        /\ Cardinality({it \in Iters : its[it].runs > 0
                                       /\ its[it].endKind = "none"}) <= 1

\* C23's case: the second case is at its assertion, the first one has ended.
C23_Witness ==
    /\ cfg.entry = "Test"
    /\ nextIter = 2
    /\ th[1].it = 2
    /\ th[1].pc = "assert"
    /\ its[1].endKind = "normal"
    /\ its[2].endKind = "none"

\* C26: when a call is over its context has been cancelled, and whenever the
\* shutdown function has been invoked the context was cancelled before.
\* Stated for the runs whose callbacks neither panic nor fail the parent t; it
\* fails: the panic of resp.Body.Close() on a nil response (C7) ends a call of
\* Test or BenchmarkParallel with the deferred cancel never run.
C26_CancelledAtEndBeforeShutdown ==
    (cfg.entry \in Entries /\ CallbacksBehave) =>
        /\ life.shutdownCalls > 0 => ctx.cancelled
        /\ Ended => ctx.cancelled

\* C27: the context of a call is not cancelled before the deferred function
\* runs - not during start, the probe, the cases and iterations - and the
\* probe the call runs ends in success or in timeout, never in cancellation.
C27_NotCancelledBeforeDefer ==
    cfg.entry \in Entries =>
        /\ ctx.cancelled <=> ctx.cancelCalls > 0
        /\ ctx.cancelled => pc \in {"shutdown", "inShutdown", "end"}
        /\ PhaseRank <= 3 => ~ctx.cancelled
        /\ probe.result \in {"none", "ok", "timeout"}

\* C27's case: the probe of the call timed out and a case or iteration is
\* under way, the context not cancelled.
C27_Witness ==
    /\ cfg.entry \in Entries
    /\ probe.result = "timeout"
    /\ pc = "wait"
    /\ SomeStarted
    /\ ~ctx.cancelled

\* C28: whenever the shutdown function has been invoked, the context it was
\* handed was not cancelled already.  It fails: Benchmark calls cancel() and
\* then shutdown(ctx) with that same ctx, where Test and BenchmarkParallel
\* pass context.Background().
C28_ShutdownArgNotCancelled ==
    (cfg.entry \in Entries /\ life.shutdownCalls > 0) => ~ShutdownArgCancelled

\* C29: with a shutdown function that first waits for its argument to be
\* cancelled, a call that is in the shutdown function can get out of it.  It
\* fails: Test and BenchmarkParallel hand it context.Background(), whose Done
\* channel never delivers.
C29_ShutdownNeverBlocks ==
    (cfg.entry \in Entries /\ cfg.shutdownWaits /\ pc = "inShutdown") =>
        ENABLED ShutdownReturns

\* C31: no send is handed a request whose body an earlier send has already
\* used: under SimpleRetry the second and later attempts of a call work on a
\* body that no attempt before them has read or closed.
C31_NoSendOfUsedBody == \A k \in Threads : th[k].stale = 0

\* C32, in every state of a call of the probe: the sleeps taken are the
\* attempts made while the next attempt is due and one fewer after an
\* attempt, so none comes before the first attempt and none after the last;
\* the probe has made an attempt when it returns, and it returns the timeout
\* error only after an attempt that was not answered 200.
C32_State ==
    cfg.entry = "Probe" =>
        /\ probe.state = "attempt" => probe.sleeps = probe.attempts
        /\ probe.state \in {"check", "done"} =>
               /\ probe.attempts >= 1
               /\ probe.sleeps = probe.attempts - 1
        /\ probe.result = "timeout" => probe.last # StatusOK

\* C32, in every step: an attempt answered 200 makes the probe return success
\* without a sleep, whatever the elapsed time is, and the timeout error is
\* returned only by the check that follows an attempt.
C32_Step ==
    /\ (cfg.entry = "Probe" /\ probe'.attempts = probe.attempts + 1
          /\ probe'.last = StatusOK) =>
           /\ probe'.state = "done"
           /\ probe'.result = "ok"
           /\ probe'.sleeps = probe.sleeps
    /\ (cfg.entry = "Probe" /\ probe.result = "none"
          /\ probe'.result = "timeout") =>
           /\ probe.state = "check"
           /\ probe.attempts >= 1
           /\ probe'.attempts = probe.attempts
           /\ probe'.sleeps = probe.sleeps

\* C32: HealthCheckReadinessProbe makes at least one attempt whatever the
\* timeout is, looks at the deadline only after an attempt that did not
\* succeed, so that a 200 is success even past the timeout, and sleeps neither
\* before its first attempt nor after the attempt that ends it.
C32_AttemptBeforeDeadline ==
    []C32_State /\ [][C32_Step]_vars

\* C32's case: with a timeout of 0 the first attempt took a tick, was
\* answered 200 and made the probe return success past the deadline, with no
\* sleep taken.
C32_Witness ==
    /\ cfg.entry = "Probe"
    /\ cfg.timeout = 0
    /\ probe.state = "done"
    /\ probe.result = "ok"
    /\ probe.attempts = 1
    /\ probe.sleeps = 0
    /\ probe.elapsed > cfg.timeout

\* C33: every request copyRequest produces for an iteration of the copying
\* Benchmark has the method, the URL, the headers and the body bytes of the
\* request the Benchmark was handed.
C33_CopyEqualsOriginal ==
    (cfg.entry = "Copy" /\ th[1].made) =>
        /\ MethodOf(th[1].req.Method) = MethodOf(cfg.req.Method)
        /\ th[1].req.URL = cfg.req.URL
        /\ th[1].req.Header = cfg.req.Header
        /\ th[1].req.Body.bytes = cfg.req.Body.bytes

====
